---- MODULE Spec2Model ----
(***************************************************************************)
(* A model of the form validator of validator-ts.ts: the constructor's     *)
(* rule map, validateField's chain of checks over the rules of one field,  *)
(* and validate's fan-out over all configured fields joined by             *)
(* Promise.allSettled; of a second validate call on the same instance;     *)
(* of validateField as validator-2.0.0.js and validator-1.0.0.js have it;   *)
(* and of the constructor call.                                            *)
(*                                                                         *)
(* JavaScript values are records [t, v, len]: t is the runtime class, v    *)
(* the text String(value) yields, len the value's length property (-1      *)
(* when the value has none).  Messages are strings: "undef" is undefined,  *)
(* "s:<text>" is the string <text> ("s:" the empty string), "fn" a         *)
(* function and "fnThrow" a function that throws when called.              *)
(***************************************************************************)
EXTENDS Integers, Sequences, FiniteSets, TLC

VARIABLES rules, transform, messageHook, api, target, form, thrown, tasks, agg, second,
          config

vars == <<rules, transform, messageHook, api, target, form, thrown, tasks, agg, second,
          config>>

(***************************************************************************)
(* Bounds of the model.                                                    *)
(***************************************************************************)
\* the most check keys one rule of a single-field configuration sets
MaxKeys == 2
\* the most rules one field of a multi-field configuration carries
MaxRules == 2

(***************************************************************************)
(* Values.                                                                 *)
(***************************************************************************)
VUndefined == [t |-> "undefined", v |-> "undefined", len |-> -1]
VNull == [t |-> "null", v |-> "null", len |-> -1]
VStr(s, n) == [t |-> "string", v |-> s, len |-> n]
VNum(s) == [t |-> "number", v |-> s, len |-> -1]
VBool(s) == [t |-> "boolean", v |-> s, len |-> -1]

VEmptyStr == VStr("", 0)

\* the field values the data objects of the model carry
Values ==
    { VUndefined, VNull, VEmptyStr, VStr("a", 1), VStr("12", 2), VStr("abc", 3),
      VNum("7"), VNum("0"), VNum("1.5"), VBool("false") }

\* typeof value
typeOf(value) ==
    IF value.t \in {"null", "array", "object", "date", "regexp"} THEN "object" ELSE value.t

\* the texts that are a decimal integer numeral
IntegralTexts == {"0", "7", "12"}

\* a variant of isEmpty that tests !value
isEmptyFalsy(value) ==
    \/ (value.t = "string" /\ value.v = "")
    \/ value.t = "null"
    \/ value.t = "undefined"
    \/ (value.t = "boolean" /\ value.v = "false")
    \/ (value.t = "number" /\ value.v \in {"0", "NaN"})

isEmpty(value) ==
    (value.t = "string" /\ value.v = "") \/ value.t = "null" \/ value.t = "undefined"

isString(value) == typeOf(value) = "string"

isNumber(value) == typeOf(value) = "number" /\ value.v # "NaN"

isBoolean(value) == typeOf(value) = "boolean"

isFunction(value) == typeOf(value) = "function"

isRegexp(value) == value.t = "regexp"

\* parseInt(value, 10) === value
isInteger(value) == isNumber(value) /\ value.v \in IntegralTexts

isFloat(value) == isNumber(value) /\ ~isInteger(value)

isArray(value) == value.t = "array"

isObject(value) == typeOf(value) = "object" /\ ~isArray(value)

isDate(value) == value.t = "date"

\* Validator.types
types == {"string", "number", "boolean", "function", "float", "integer",
          "array", "object", "date", "regexp"}

\* Validator[`is${capitalize(type)}`](value)
typePredicate(type, value) ==
    CASE type = "string" -> isString(value)
      [] type = "number" -> isNumber(value)
      [] type = "boolean" -> isBoolean(value)
      [] type = "function" -> isFunction(value)
      [] type = "float" -> isFloat(value)
      [] type = "integer" -> isInteger(value)
      [] type = "array" -> isArray(value)
      [] type = "object" -> isObject(value)
      [] type = "date" -> isDate(value)
      [] type = "regexp" -> isRegexp(value)

\* value === validList[i] for some i
oneOf(value, validList) == value \in validList /\ value.v # "NaN"

\* the length of the text String(value) of a value whose text is a numeral
TextLen(value) == IF value.v = "12" THEN 2 ELSE 1

\* pattern.test(value) for the pattern /^\d+$/ ("digits") and for /^\d+$/g
\* ("digitsG"): the value's text is matched; with the g flag the match is
\* tried from pattern.lastIndex on, where ^ matches only at 0
patternTest(pattern, lastIndex, value) ==
    CASE pattern = "digits" -> value.v \in IntegralTexts
      [] pattern = "digitsG" -> lastIndex = 0 /\ value.v \in IntegralTexts
      [] OTHER -> FALSE

\* pattern.lastIndex after pattern.test(value): with the g flag the end of
\* the match, 0 after a failed match; without it lastIndex is left alone
lastIndexAfter(pattern, lastIndex, value) ==
    IF pattern = "digitsG"
    THEN (IF patternTest(pattern, lastIndex, value) THEN TextLen(value) ELSE 0)
    ELSE lastIndex

\* the rule contents that are a regular expression: pattern instanceof RegExp
RegExps == {"digits", "digitsG"}

\* the rule contents that are an array: Array.isArray(list)
Arrays == {"list"}

\* the list a rule's enum names
enumList(enum) ==
    CASE enum = "list" -> {VStr("12", 2), VNum("7")}
      [] OTHER -> {}

\* Number(value), a transform a configuration may name: value => Number(value)
Number(value) ==
    CASE value.t = "number" -> value
      [] value.t = "string" /\ value.v \in IntegralTexts -> VNum(value.v)
      [] value.t = "string" /\ value.v = "" -> VNum("0")
      [] value.t = "null" -> VNum("0")
      [] value.t = "boolean" -> VNum("0")
      [] OTHER -> VNum("NaN")

(***************************************************************************)
(* Rules.                                                                  *)
(***************************************************************************)
\* what a custom validator may throw or reject with
Payloads == {"sWrong", "sEmpty", "errBoom", "objEmptyMsg", "objNoMsg", "null",
             "undefined", "num42"}

\* typeof err
payloadTypeof(err) ==
    CASE err \in {"sWrong", "sEmpty"} -> "string"
      [] err \in {"errBoom", "objEmptyMsg", "objNoMsg", "null"} -> "object"
      [] err = "undefined" -> "undefined"
      [] OTHER -> "number"

\* err itself for a string, err.message for an object
payloadMessage(err) ==
    CASE err = "sWrong" -> "s:wrong"
      [] err = "sEmpty" -> "s:"
      [] err = "errBoom" -> "s:boom"
      [] err = "objEmptyMsg" -> "s:"
      [] OTHER -> "undef"

NoValidator == [how |-> "none", arg |-> "none"]

\* a validator that is no function, a string say
NotAFunction == [how |-> "notFunction", arg |-> "none"]

\* the custom validators of the model: what the function does when called; one is no function
Validators ==
    {NoValidator}
    \cup [how : {"return"}, arg : {"true", "false"}]
    \cup [how : {"throw"}, arg : Payloads]
    \cup [how : {"resolve"}, arg : {"undefined", "false"}]
    \cup [how : {"reject"}, arg : {"sWrong", "null"}]
    \cup {NotAFunction}

RuleItem ==
    [required : BOOLEAN, type : {"none", "string", "integer", "float", "bogus"},
     pattern : {"none", "digits", "text"},
     maxlength : {0, 2, -1}, minlength : {0, 2, -1}, enum : {"none", "list", "text"},
     validator : Validators, message : {"s:msg", "fn", "fnThrow"}, lastIndex : {0}]

\* how many checks a rule configures
NumKeys(rule) ==
    (IF rule.required THEN 1 ELSE 0) + (IF rule.type # "none" THEN 1 ELSE 0)
    + (IF rule.pattern # "none" THEN 1 ELSE 0) + (IF rule.maxlength # 0 THEN 1 ELSE 0)
    + (IF rule.minlength # 0 THEN 1 ELSE 0) + (IF rule.enum # "none" THEN 1 ELSE 0)
    + (IF rule.validator # NoValidator THEN 1 ELSE 0)

Truthy(message) == message \notin {"undef", "s:"}

messageIsFunction(message) == message \in {"fn", "fnThrow"}

(***************************************************************************)
(* The checks of the chain.  Each takes the rule and the transformed       *)
(* value and yields a result: kind "bool" for a plain boolean, "object"    *)
(* for {pass, message}, "promise" while the custom validator's promise is  *)
(* pending, "threw" when the check itself raised.                          *)
(***************************************************************************)
BoolRes(b) == [kind |-> "bool", pass |-> b, message |-> "undef"]
ObjRes(b, m) == [kind |-> "object", pass |-> b, message |-> m]
PendingRes == [kind |-> "promise", pass |-> FALSE, message |-> "undef"]
ThrewRes == [kind |-> "threw", pass |-> FALSE, message |-> "undef"]
NoRes == [kind |-> "none", pass |-> FALSE, message |-> "undef"]

_validateRequired(rule, value) ==
    IF rule.required THEN ~isEmpty(value) ELSE TRUE

_validateType(rule, value) ==
    IF isEmpty(value) THEN TRUE
    ELSE IF rule.type # "none"
         THEN (IF rule.type \in types THEN typePredicate(rule.type, value) ELSE TRUE)
         ELSE TRUE

_validatePattern(rule, value) ==
    IF isEmpty(value) THEN TRUE
    ELSE IF rule.pattern # "none"
         THEN (IF rule.pattern \in RegExps
               THEN patternTest(rule.pattern, rule.lastIndex, value) ELSE TRUE)
         ELSE TRUE

\* a variant of _validateMaxlen that compares with any maxlength, positive or not
_validateMaxlenAnyNumber(rule, value) ==
    IF isEmpty(value) THEN TRUE
    ELSE IF rule.maxlength # 0 THEN value.len >= 0 /\ value.len <= rule.maxlength
         ELSE TRUE

\* value.length <= maxlength is false when value.length is undefined
_validateMaxlen(rule, value) ==
    IF isEmpty(value) THEN TRUE
    ELSE IF rule.maxlength # 0
         THEN (IF rule.maxlength > 0 THEN value.len >= 0 /\ value.len <= rule.maxlength
               ELSE TRUE)
         ELSE TRUE

\* value.length >= minlength is false when value.length is undefined
_validateMinlen(rule, value) ==
    IF isEmpty(value) THEN TRUE
    ELSE IF rule.minlength # 0
         THEN (IF rule.minlength > 0 THEN value.len >= 0 /\ value.len >= rule.minlength
               ELSE TRUE)
         ELSE TRUE

_validateEnum(rule, value) ==
    IF isEmpty(value) THEN TRUE
    ELSE IF rule.enum # "none"
         THEN (IF rule.enum \in Arrays THEN oneOf(value, enumList(rule.enum)) ELSE TRUE)
         ELSE TRUE

\* the catch block of _customValidate: reading err.message of null raises
catchResult(err) ==
    IF payloadTypeof(err) = "string" THEN ObjRes(FALSE, payloadMessage(err))
    ELSE IF payloadTypeof(err) = "object"
         THEN (IF err = "null" THEN ThrewRes ELSE ObjRes(FALSE, payloadMessage(err)))
         ELSE ObjRes(FALSE, "s:")

\* a variant of _customValidate without the return on an empty value
_customValidateNoSkip(rule, value) ==
    CASE rule.validator.how = "none" -> BoolRes(TRUE)
      [] rule.validator.how = "notFunction" -> BoolRes(TRUE)
      [] rule.validator.how = "return" -> BoolRes(rule.validator.arg = "true")
      [] rule.validator.how = "throw" -> catchResult(rule.validator.arg)
      [] OTHER -> PendingRes

\* _customValidate up to its await
_customValidate(rule, value) ==
    IF isEmpty(value) THEN BoolRes(TRUE)
    ELSE CASE rule.validator.how = "none" -> BoolRes(TRUE)
           [] rule.validator.how = "notFunction" -> BoolRes(TRUE)
           [] rule.validator.how = "return" -> BoolRes(rule.validator.arg = "true")
           [] rule.validator.how = "throw" -> catchResult(rule.validator.arg)
           [] OTHER -> PendingRes

\* _customValidate from its await on, once the validator's promise has settled
customValidateSettled(rule) ==
    IF rule.validator.how = "resolve" THEN BoolRes(TRUE)
    ELSE catchResult(rule.validator.arg)

\* a variant of the chain that calls the custom validator before the length checks
chainValidatorFirst ==
    <<"required", "type", "pattern", "validator", "maxlength", "minlength", "enum">>

\* the chain of validateField, in the order its checks are called
chain == <<"required", "type", "pattern", "maxlength", "minlength", "enum", "validator">>

\* validator(rule, value, field) for the check of that name
callCheck(name, rule, value) ==
    CASE name = "required" -> BoolRes(_validateRequired(rule, value))
      [] name = "type" -> BoolRes(_validateType(rule, value))
      [] name = "pattern" -> BoolRes(_validatePattern(rule, value))
      [] name = "maxlength" -> BoolRes(_validateMaxlen(rule, value))
      [] name = "minlength" -> BoolRes(_validateMinlen(rule, value))
      [] name = "enum" -> BoolRes(_validateEnum(rule, value))
      [] name = "validator" -> _customValidate(rule, value)

(***************************************************************************)
(* Configuration and data.                                                 *)
(***************************************************************************)
\* the field names a configuration may carry rules for
Fields == {"f1", "f2"}

\* a name every object inherits from Object.prototype
InheritedProps == {"constructor"}

\* the field names validateField is called with
Targets == Fields \cup {"zz"} \cup InheritedProps

TransformKinds == {"none", "Number", "throws"}

HookKinds == {"none", "hook", "hookThrows"}

\* the data arguments that are no key-value object
NonObjectKinds == {"null", "undefined", "array", "number", "string"}

ObjectForm(values) == [kind |-> "object", fields |-> values]

OtherForm(kind) == [kind |-> kind, fields |-> [f \in Fields |-> VUndefined]]

\* Validator.isObject(form): typeof form === 'object' && !Array.isArray(form)
formIsObject(data) == data.kind \in {"object", "null", "array"} /\ data.kind # "array"

\* _rules[field]: the rules of an own key, else what the prototype chain yields
rulesLookup(field) ==
    IF field \in DOMAIN rules THEN "rules"
    ELSE IF field \in InheritedProps THEN "inherited" ELSE "undefined"

\* a variant of transformed that hands the checks the raw value
transformedRaw(field, data) ==
    IF data.kind # "object" THEN [ok |-> FALSE, value |-> VUndefined]
    ELSE CASE transform[field] = "throws" -> [ok |-> FALSE, value |-> VUndefined]
           [] OTHER -> [ok |-> TRUE, value |-> data.fields[field]]

\* currentTransform(form[field]); "threw" when the read or the transform raises
transformed(field, data) ==
    IF data.kind # "object" THEN [ok |-> FALSE, value |-> VUndefined]
    ELSE CASE transform[field] = "throws" -> [ok |-> FALSE, value |-> VUndefined]
           [] transform[field] = "Number" -> [ok |-> TRUE, value |-> Number(data.fields[field])]
           [] OTHER -> [ok |-> TRUE, value |-> data.fields[field]]

(***************************************************************************)
(* One validateField evaluation (a task).  pc is where its executor        *)
(* stands: "run" between two checks, "await" on the custom validator's     *)
(* promise, "done" once it resolved or rejected, "crashed" once the        *)
(* executor raised (its promise then stays pending for ever).  trace,      *)
(* failedBy, validatorCalls, hookCalls and messageFnCalls record what the  *)
(* evaluation called: the checks as <<rule index, check>>, the check that  *)
(* failed, the rule index of each call of a custom validator, the message *)
(* of each call of the messageHook, the calls of a message function.       *)
(***************************************************************************)
NoRule ==
    [required |-> FALSE, type |-> "none", pattern |-> "none", maxlength |-> 0,
     minlength |-> 0, enum |-> "none", validator |-> NoValidator, message |-> "undef",
     lastIndex |-> 0]

NoReason == [wrapped |-> FALSE, field |-> "", rule |-> NoRule]

\* a variant of NewTask whose evaluation always rejects with the {field, rule} wrapper
NewTaskAlwaysWraps(field, fieldWrap) ==
    [field |-> field, wrap |-> TRUE, pc |-> "run", promise |-> "pending",
     ri |-> 1, ci |-> 1, res |-> NoRes, reason |-> NoReason, failedBy |-> "none",
     trace |-> << >>, validatorCalls |-> << >>, hookCalls |-> << >>, messageFnCalls |-> 0,
     aliased |-> FALSE]

NewTask(field, fieldWrap) ==
    [field |-> field, wrap |-> fieldWrap, pc |-> "run", promise |-> "pending",
     ri |-> 1, ci |-> 1, res |-> NoRes, reason |-> NoReason, failedBy |-> "none",
     trace |-> << >>, validatorCalls |-> << >>, hookCalls |-> << >>, messageFnCalls |-> 0,
     aliased |-> FALSE]

Crashed(t) == [t EXCEPT !.pc = "crashed", !.res = NoRes]

\* whether calling this check calls the rule's validator function
invokesValidator(name, rule, value) ==
    name = "validator" /\ ~isEmpty(value) /\ rule.validator.how \notin {"none", "notFunction"}

\* const validateRes = await validator(rule, currentTransform(form[field]), field), to the await
callNext(t, data) ==
    LET rule == rules[t.field][t.ri]
        name == chain[t.ci]
        tv == transformed(t.field, data)
        r == callCheck(name, rule, tv.value)
        called == [t EXCEPT !.trace = Append(@, <<t.ri, name>>),
                            !.validatorCalls =
                                IF invokesValidator(name, rule, tv.value)
                                THEN Append(@, t.ri) ELSE @]
    IN  IF ~tv.ok THEN Crashed(t)
        ELSE CASE r.kind = "promise" -> [called EXCEPT !.pc = "await", !.res = r]
               [] r.kind = "threw" -> Crashed(called)
               [] OTHER -> [called EXCEPT !.res = r]

\* a variant of resolveMessage that prefers the rule's message: rule.message || errMsg
resolveMessageRuleFirst(errMsg, rule) == IF Truthy(rule.message) THEN rule.message ELSE errMsg

\* const message = errMsg || rule.message
resolveMessage(errMsg, rule) == IF Truthy(errMsg) THEN errMsg ELSE rule.message

\* a variant of failTask that invokes the messageHook after a message function too
failTaskHookAlways(t) ==
    LET rule == rules[t.field][t.ri]
        errMsg == IF t.res.kind = "object" THEN t.res.message ELSE "s:"
        message == resolveMessage(errMsg, rule)
        finalRule == [rule EXCEPT !.message = message]
        fnCalls == IF messageIsFunction(message) THEN 1 ELSE 0
        hooks == IF messageHook # "none" THEN <<message>> ELSE << >>
        called == [t EXCEPT !.messageFnCalls = @ + fnCalls, !.hookCalls = @ \o hooks]
    IN  IF message = "fnThrow" \/ messageHook = "hookThrows"
        THEN Crashed(called)
        ELSE [called EXCEPT !.pc = "done", !.promise = "rejected", !.res = NoRes,
                            !.failedBy = chain[t.ci],
                            !.reason = [wrapped |-> t.wrap, field |-> t.field,
                                        rule |-> finalRule]]

\* the branch of a check that did not pass: the message function or the hook, then reject
failTask(t) ==
    LET rule == rules[t.field][t.ri]
        errMsg == IF t.res.kind = "object" THEN t.res.message ELSE "s:"
        message == resolveMessage(errMsg, rule)
        finalRule == [rule EXCEPT !.message = message]
        rejected == [t EXCEPT !.pc = "done", !.promise = "rejected", !.res = NoRes,
                              !.failedBy = chain[t.ci],
                              !.reason = [wrapped |-> t.wrap, field |-> t.field,
                                          rule |-> finalRule]]
    IN  IF messageIsFunction(message)
        THEN (IF message = "fnThrow"
              THEN Crashed([t EXCEPT !.messageFnCalls = @ + 1])
              ELSE [rejected EXCEPT !.messageFnCalls = @ + 1])
        ELSE IF messageHook # "none"
             THEN (IF messageHook = "hookThrows"
                   THEN Crashed([t EXCEPT !.hookCalls = Append(@, message)])
                   ELSE [rejected EXCEPT !.hookCalls = Append(@, message)])
             ELSE rejected

\* a variant of process that leaves only the inner loop on a failure and goes on
\* with the next rule
processBreakOnly(t, data) ==
    IF ~t.res.pass /\ t.ri >= Len(rules[t.field]) THEN failTask(t)
    ELSE IF t.res.pass /\ t.ci < Len(chain) THEN callNext([t EXCEPT !.ci = @ + 1], data)
    ELSE IF t.ri < Len(rules[t.field]) THEN callNext([t EXCEPT !.ri = @ + 1, !.ci = 1], data)
    ELSE [t EXCEPT !.pc = "done", !.promise = "resolved", !.res = NoRes]

\* a variant of process that resolves as soon as the first rule has passed
processFirstRuleOnly(t, data) ==
    IF ~t.res.pass THEN failTask(t)
    ELSE IF t.ci < Len(chain) THEN callNext([t EXCEPT !.ci = @ + 1], data)
    ELSE [t EXCEPT !.pc = "done", !.promise = "resolved", !.res = NoRes]

\* the executor from the result of one check to the await of the next
process(t, data) ==
    IF ~t.res.pass THEN failTask(t)
    ELSE IF t.ci < Len(chain) THEN callNext([t EXCEPT !.ci = @ + 1], data)
    ELSE IF t.ri < Len(rules[t.field]) THEN callNext([t EXCEPT !.ri = @ + 1, !.ci = 1], data)
    ELSE [t EXCEPT !.pc = "done", !.promise = "resolved", !.res = NoRes]

\* the rules once the executor went from t to next: a pattern check that was
\* called on a non-empty value has run pattern.test and left its lastIndex
rulesAfter(t, next, data) ==
    LET n == Len(next.trace)
        rule == rules[next.field][next.ri]
        value == transformed(next.field, data).value
    IN  IF /\ n > Len(t.trace)
           /\ next.trace[n][2] = "pattern"
           /\ rule.pattern \in RegExps
           /\ ~isEmpty(value)
        THEN [rules EXCEPT ![next.field][next.ri].lastIndex =
                               lastIndexAfter(rule.pattern, rule.lastIndex, value)]
        ELSE rules

\* validateField after its argument check: the vacuous pass, else the executor to its first await
startTask(field, fieldWrap, data) ==
    LET t == NewTask(field, fieldWrap)
    IN  CASE rulesLookup(field) = "undefined" ->
                [t EXCEPT !.pc = "done", !.promise = "resolved"]
          [] rulesLookup(field) = "inherited" -> Crashed(t)
          [] OTHER ->
                IF Len(rules[field]) = 0
                THEN [t EXCEPT !.pc = "done", !.promise = "resolved"]
                ELSE callNext(t, data)

\* a variant of joinReady that joins as Promise.all does: on the first rejection
joinFailFast(ts) ==
    \/ \E f \in DOMAIN ts : ts[f].promise = "rejected"
    \/ \A f \in DOMAIN ts : ts[f].promise = "resolved"

\* Promise.allSettled(tasks) has settled
joinReady(ts) == \A f \in DOMAIN ts : ts[f].promise # "pending"

\* a variant of rejectedTasks that filters on a status no result carries
rejectedTasksNone(ts) == {f \in DOMAIN ts : ts[f].promise = "reject"}

\* validateResult.filter(item => item.status === 'rejected')
rejectedTasks(ts) == {f \in DOMAIN ts : ts[f].promise = "rejected"}

\* a variant of errorsMap that maps the first rejected task only
errorsMapFirstOnly(ts) ==
    LET failed == {f \in DOMAIN ts : ts[f].promise = "rejected" /\ ts[f].reason.wrapped}
        first == CHOOSE f \in failed : TRUE
    IN  [k \in {ts[first].reason.field} |-> ts[first].reason.rule]

\* errorsMap: err.reason.field -> err.reason.rule over the rejected tasks
errorsMap(ts) ==
    LET failed == {f \in rejectedTasks(ts) : ts[f].reason.wrapped}
    IN  [k \in {ts[f].reason.field : f \in failed} |->
            ts[CHOOSE f \in failed : ts[f].reason.field = k].reason.rule]

NoTasks == [f \in {} |-> NewTask(f, FALSE)]

(***************************************************************************)
(* The constructor's argument.  config.arg is the class of the config      *)
(* argument, config.kind that of config.rules, config.rules the supplied   *)
(* mapping: under a field either one rule object or an array of rules.     *)
(***************************************************************************)
\* a lone rule object supplied under a field
SingleItem(r) == [isArray |-> FALSE, rule |-> r, items |-> << >>]

\* an array of rule objects supplied under a field
ArrayItem(l) == [isArray |-> TRUE, rule |-> NoRule, items |-> l]

\* Validator.isObject of an argument: typeof === 'object' && !isArray
isObjectArg(kind) == kind \in {"mapping", "object", "null"}

\* a variant of constructedRules that keeps the fields given an array only
constructedRulesArraysOnly(supplied) ==
    [f \in {g \in DOMAIN supplied : supplied[g].isArray} |-> supplied[f].items]

\* Object.keys(rules).forEach: _rules[field] = isArray(item) ? item : [item]
constructedRules(supplied) ==
    [f \in DOMAIN supplied |->
        IF supplied[f].isArray THEN supplied[f].items ELSE <<supplied[f].rule>>]

\* what the constructor throws for its argument, "none" when it returns
constructorError(c) ==
    CASE ~isObjectArg(c.arg) -> "config must be an object"
      [] c.arg = "null" -> "TypeError"
      [] ~isObjectArg(c.kind) -> "rules must be an object"
      [] c.transform = "notObject" -> "transform must be an object"
      [] c.hook = "notFunction" -> "messageHook must be an function"
      [] c.kind = "null" -> "TypeError"
      [] OTHER -> "none"

\* the argument of the constructor call that built a validator with these rules
ConfigOf(rs, tk, hook) ==
    [state |-> "built", arg |-> "object", kind |-> "mapping",
     rules |-> [f \in DOMAIN rs |-> ArrayItem(rs[f])],
     transform |-> tk, hook |-> hook, error |-> "none"]

NoErrors == [f \in {} |-> NoRule]

(***************************************************************************)
(* Initial states: a constructed validator and the data its caller holds.  *)
(***************************************************************************)
\* how many of message function, transform and messageHook a configuration uses
NumExtras(rule, tk, hook) ==
    (IF rule.message # "s:msg" THEN 1 ELSE 0) + (IF tk # "none" THEN 1 ELSE 0)
    + (IF hook # "none" THEN 1 ELSE 0)

\* one field with one rule: up to MaxKeys checks, or fewer checks with the hooks
SingleConfigs ==
    {c \in [rule : RuleItem, tk : TransformKinds, hook : HookKinds] :
        \/ NumKeys(c.rule) <= MaxKeys /\ NumExtras(c.rule, c.tk, c.hook) = 0
        \/ NumKeys(c.rule) < MaxKeys}

SingleForms ==
    {ObjectForm([f \in Fields |-> IF f = "f1" THEN v ELSE VStr("abc", 3)]) : v \in Values}
    \cup {OtherForm(k) : k \in NonObjectKinds}

\* a validate call that has not been made
NoCall ==
    [api |-> "none", thrown |-> FALSE, tasks |-> NoTasks,
     agg |-> [state |-> "none", value |-> NoErrors], sequential |-> FALSE]

Idle ==
    /\ api = "none"
    /\ target = "none"
    /\ thrown = FALSE
    /\ tasks = NoTasks
    /\ agg = [state |-> "none", value |-> NoErrors]
    /\ second = NoCall

\* constructor: _rules[field] = isArray(item) ? item : [item]
Init ==
    /\ \E c \in SingleConfigs :
          /\ rules = [f \in {"f1"} |-> <<c.rule>>]
          /\ transform = [f \in Fields |-> IF f = "f1" THEN c.tk ELSE "none"]
          /\ messageHook = c.hook
    /\ config = ConfigOf(rules, "mapping", messageHook)
    /\ form \in SingleForms
    /\ Idle

\* the rules of the multi-field configurations
AggRules ==
    { [NoRule EXCEPT !.required = TRUE, !.maxlength = 2,
                     !.validator = [how |-> "resolve", arg |-> "undefined"],
                     !.message = "s:msg"],
      [NoRule EXCEPT !.validator = [how |-> "reject", arg |-> "sWrong"],
                     !.message = "s:msg"],
      [NoRule EXCEPT !.pattern = "digits", !.message = "s:msg"] }

RECURSIVE RuleLists(_)
RuleLists(n) ==
    IF n = 0 THEN {<< >>}
    ELSE {Append(l, r) : l \in RuleLists(n - 1), r \in AggRules}

AggRuleLists == UNION {RuleLists(n) : n \in 1..MaxRules}

AggValues == {VEmptyStr, VStr("12", 2), VStr("abc", 3)}

InitAgg ==
    /\ \E fs \in SUBSET Fields : rules \in [fs -> AggRuleLists]
    /\ transform = [f \in Fields |-> "none"]
    /\ messageHook = "none"
    /\ config = ConfigOf(rules, "mapping", messageHook)
    /\ form \in {ObjectForm(vs) : vs \in [Fields -> AggValues]}
    /\ Idle

(***************************************************************************)
(* Actions.                                                                *)
(***************************************************************************)
\* validate(form): the argument check, one validateField per configured field, the join promise
CallValidate ==
    /\ config.state = "built"
    /\ api = "none"
    /\ api' = "validate"
    /\ IF ~formIsObject(form)
       THEN thrown' = TRUE /\ UNCHANGED <<tasks, agg>>
       ELSE /\ tasks' = [f \in DOMAIN rules |-> startTask(f, TRUE, form)]
            /\ agg' = [agg EXCEPT !.state = "pending"]
            /\ UNCHANGED thrown
    /\ UNCHANGED <<rules, transform, messageHook, target, form, second, config>>

\* validateField(field, form) called by the user
CallValidateField(field) ==
    /\ config.state = "built"
    /\ api = "none"
    /\ api' = "validateField"
    /\ target' = field
    /\ IF ~formIsObject(form)
       THEN thrown' = TRUE /\ UNCHANGED tasks
       ELSE /\ tasks' = [f \in {field} |-> startTask(field, FALSE, form)]
            /\ UNCHANGED thrown
    /\ UNCHANGED <<rules, transform, messageHook, form, agg, second, config>>

\* the executor of one evaluation resumes after an await that a plain result ended
Step(f) ==
    /\ tasks[f].pc = "run"
    /\ tasks' = [tasks EXCEPT ![f] = process(tasks[f], form)]
    /\ rules' = rulesAfter(tasks[f], process(tasks[f], form), form)
    /\ UNCHANGED <<transform, messageHook, api, target, form, thrown, agg, second, config>>

\* the promise a custom validator returned settles
Settle(f) ==
    /\ tasks[f].pc = "await"
    /\ LET r == customValidateSettled(rules[f][tasks[f].ri])
       IN  tasks' = [tasks EXCEPT ![f] =
                        IF r.kind = "threw" THEN Crashed(@) ELSE [@ EXCEPT !.pc = "run", !.res = r]]
    /\ UNCHANGED <<rules, transform, messageHook, api, target, form, thrown, agg, second, config>>

\* validate's executor after await Promise.allSettled(tasks)
Join ==
    /\ api = "validate"
    /\ agg.state = "pending"
    /\ joinReady(tasks)
    /\ agg' = IF rejectedTasks(tasks) # {}
              THEN [state |-> "rejected", value |-> errorsMap(tasks)]
              ELSE [state |-> "resolved", value |-> NoErrors]
    /\ UNCHANGED <<rules, transform, messageHook, api, target, form, thrown, tasks, second, config>>

Next ==
    \/ CallValidate
    \/ \E field \in Targets : CallValidateField(field)
    \/ \E f \in DOMAIN tasks : Step(f)
    \/ \E f \in DOMAIN tasks : Settle(f)
    \/ Join

Spec == Init /\ [][Next]_vars

SpecAgg == InitAgg /\ [][Next]_vars

\* every promise a custom validator returned settles, every executor is resumed
Fairness == WF_vars(Next)

\* the single-field configurations under that scheduling
SpecLive == Init /\ [][Next]_vars /\ Fairness

(***************************************************************************)
(* A second validate call on the same instance with the same data, made    *)
(* while the first call is in flight or after it has settled.              *)
(***************************************************************************)
\* the rules of the configurations that are validated twice
CallRules ==
    { [NoRule EXCEPT !.pattern = "digitsG", !.message = "s:msg"],
      [NoRule EXCEPT !.validator = [how |-> "resolve", arg |-> "undefined"],
                     !.message = "s:msg"],
      [NoRule EXCEPT !.validator = [how |-> "reject", arg |-> "sWrong"],
                     !.message = "s:msg"] }

CallValues == {VStr("12", 2), VStr("abc", 3)}

InitCalls ==
    /\ \E fs \in SUBSET Fields : rules \in [fs -> {<<r>> : r \in CallRules}]
    /\ transform = [f \in Fields |-> "none"]
    /\ messageHook = "none"
    /\ config = ConfigOf(rules, "mapping", messageHook)
    /\ form \in {ObjectForm(vs) : vs \in [Fields -> CallValues]}
    /\ Idle

\* the first call has settled or thrown
FirstSettled ==
    \/ thrown
    \/ api = "validate" /\ agg.state \in {"resolved", "rejected"}
    \/ api = "validateField" /\ ~thrown /\ tasks[target].promise # "pending"

\* validate(form) once more, after the first call was made
CallValidateAgain ==
    /\ api # "none"
    /\ second.api = "none"
    /\ second' = IF ~formIsObject(form)
                 THEN [NoCall EXCEPT !.api = "validate", !.thrown = TRUE,
                                     !.sequential = FirstSettled]
                 ELSE [api |-> "validate", thrown |-> FALSE,
                       tasks |-> [f \in DOMAIN rules |-> startTask(f, TRUE, form)],
                       agg |-> [state |-> "pending", value |-> NoErrors],
                       sequential |-> FirstSettled]
    /\ UNCHANGED <<rules, transform, messageHook, api, target, form, thrown, tasks, agg, config>>

\* the executor of one evaluation of the second call resumes after an await
StepAgain(f) ==
    /\ second.tasks[f].pc = "run"
    /\ second' = [second EXCEPT !.tasks[f] = process(@, form)]
    /\ rules' = rulesAfter(second.tasks[f], process(second.tasks[f], form), form)
    /\ UNCHANGED <<transform, messageHook, api, target, form, thrown, tasks, agg, config>>

\* the promise a custom validator returned to the second call settles
SettleAgain(f) ==
    /\ second.tasks[f].pc = "await"
    /\ LET r == customValidateSettled(rules[f][second.tasks[f].ri])
       IN  second' = [second EXCEPT !.tasks[f] =
                         IF r.kind = "threw" THEN Crashed(@)
                         ELSE [@ EXCEPT !.pc = "run", !.res = r]]
    /\ UNCHANGED <<rules, transform, messageHook, api, target, form, thrown, tasks, agg, config>>

\* the second call's executor after await Promise.allSettled(tasks)
JoinAgain ==
    /\ second.api = "validate"
    /\ second.agg.state = "pending"
    /\ joinReady(second.tasks)
    /\ second' = [second EXCEPT !.agg =
                      IF rejectedTasks(second.tasks) # {}
                      THEN [state |-> "rejected", value |-> errorsMap(second.tasks)]
                      ELSE [state |-> "resolved", value |-> NoErrors]]
    /\ UNCHANGED <<rules, transform, messageHook, api, target, form, thrown, tasks, agg, config>>

NextCalls ==
    \/ Next
    \/ CallValidateAgain
    \/ \E f \in DOMAIN second.tasks : StepAgain(f)
    \/ \E f \in DOMAIN second.tasks : SettleAgain(f)
    \/ JoinAgain

SpecCalls == InitCalls /\ [][NextCalls]_vars

(***************************************************************************)
(* Construction: new Validator(config) as a step of its own, followed by   *)
(* the calls on the validator it built.                                    *)
(***************************************************************************)
\* what a configuration supplies under one field
SuppliedItems ==
    {SingleItem(r) : r \in AggRules}
    \cup {ArrayItem(l) : l \in {<< >>} \cup AggRuleLists}

\* the config arguments the constructor is called with
NewConfigs ==
    LET base == [state |-> "new", arg |-> "object", kind |-> "mapping",
                 rules |-> [f \in {} |-> SingleItem(NoRule)],
                 transform |-> "undefined", hook |-> "none", error |-> "none"]
    IN  {[base EXCEPT !.rules = m] :
            m \in UNION {[fs -> SuppliedItems] : fs \in SUBSET Fields}}
        \cup {[base EXCEPT !.kind = k] : k \in NonObjectKinds}
        \cup {[base EXCEPT !.arg = k, !.kind = "undefined"] : k \in NonObjectKinds}
        \cup {[base EXCEPT !.transform = "notObject"], [base EXCEPT !.hook = "notFunction"]}

\* before the constructor runs: the class field _rules = {}
InitNew ==
    /\ config \in NewConfigs
    /\ rules = [f \in {} |-> << >>]
    /\ transform = [f \in Fields |-> "none"]
    /\ messageHook = "none"
    /\ form \in {ObjectForm(vs) : vs \in [Fields -> CallValues]}
    /\ Idle

\* new Validator(config)
Construct ==
    /\ config.state = "new"
    /\ IF constructorError(config) # "none"
       THEN /\ config' = [config EXCEPT !.state = "threw", !.error = constructorError(config)]
            /\ UNCHANGED <<rules, transform, messageHook>>
       ELSE /\ config' = [config EXCEPT !.state = "built"]
            /\ rules' = constructedRules(config.rules)
            /\ transform' = [f \in Fields |-> "none"]
            /\ messageHook' = config.hook
    /\ UNCHANGED <<api, target, form, thrown, tasks, agg, second>>

NextNew ==
    \/ Construct
    \/ Next

SpecNew == InitNew /\ [][NextNew]_vars

(***************************************************************************)
(* validator-2.0.0.js.  Its constructor, validate and static predicates    *)
(* are those above; its validateField has another chain, its checks do     *)
(* not skip an empty value, it knows no message function and no            *)
(* messageHook, it always rejects with {field, rule}, and it reads         *)
(* _transform[field] of a _transform that is undefined when the            *)
(* configuration carries no transform ("absent").                          *)
(***************************************************************************)
\* the chain of validateField in validator-2.0.0.js
chainV2 == <<"required", "type", "pattern", "validator", "maxlength", "minlength", "enum">>

\* the catch block of _customValidate: errMsg = err, err.message for an object
catchResultV2(err) ==
    CASE payloadTypeof(err) = "string" -> ObjRes(FALSE, payloadMessage(err))
      [] payloadTypeof(err) = "object" ->
            IF err = "null" THEN ThrewRes ELSE ObjRes(FALSE, payloadMessage(err))
      [] payloadTypeof(err) = "number" -> ObjRes(FALSE, "n:42")
      [] OTHER -> ObjRes(FALSE, "undef")

\* value.length of null or undefined raises
lengthCheckV2(bound, value, ok) ==
    IF bound # 0
    THEN (IF bound > 0
          THEN (IF value.t \in {"null", "undefined"} THEN ThrewRes
                ELSE BoolRes(value.len >= 0 /\ ok))
          ELSE BoolRes(TRUE))
    ELSE BoolRes(TRUE)

\* Validator.isFloat of validator-2.0.0.js and validator-1.0.0.js:
\* Validator.isNumber(value) && !Validator.isTnteger(value), where
\* Validator.isTnteger is undefined and calling it raises
isFloatV2(value) == IF isNumber(value) THEN ThrewRes ELSE BoolRes(FALSE)

\* the checks of validator-2.0.0.js: validator(rule, value, field)
callCheckV2(name, rule, value) ==
    CASE name = "required" -> BoolRes(_validateRequired(rule, value))
      [] name = "type" ->
            IF rule.type # "none" /\ rule.type \in types
            THEN (IF rule.type = "float" THEN isFloatV2(value)
                  ELSE BoolRes(typePredicate(rule.type, value)))
            ELSE BoolRes(TRUE)
      [] name = "pattern" ->
            BoolRes(IF rule.pattern # "none" /\ rule.pattern \in RegExps
                    THEN patternTest(rule.pattern, rule.lastIndex, value) ELSE TRUE)
      [] name = "maxlength" ->
            lengthCheckV2(rule.maxlength, value, value.len <= rule.maxlength)
      [] name = "minlength" ->
            lengthCheckV2(rule.minlength, value, value.len >= rule.minlength)
      [] name = "enum" ->
            BoolRes(IF rule.enum # "none" /\ rule.enum \in Arrays
                    THEN oneOf(value, enumList(rule.enum)) ELSE TRUE)
      [] name = "validator" ->
            CASE rule.validator.how \in {"none", "notFunction"} -> BoolRes(TRUE)
              [] rule.validator.how = "return" -> BoolRes(rule.validator.arg = "true")
              [] rule.validator.how = "throw" -> catchResultV2(rule.validator.arg)
              [] OTHER -> PendingRes

\* _customValidate from its await on, once the validator's promise has settled
customValidateSettledV2(rule) ==
    IF rule.validator.how = "resolve" THEN BoolRes(TRUE)
    ELSE catchResultV2(rule.validator.arg)

\* currentTransform(form[field]) with const currentTransform = _transform[field] || (value => value)
transformedV2(field, data) ==
    IF data.kind # "object" THEN [ok |-> FALSE, value |-> VUndefined]
    ELSE CASE transform[field] \in {"absent", "throws"} -> [ok |-> FALSE, value |-> VUndefined]
           [] transform[field] = "Number" -> [ok |-> TRUE, value |-> Number(data.fields[field])]
           [] OTHER -> [ok |-> TRUE, value |-> data.fields[field]]

\* const validateRes = await validator(rule, currentTransform(form[field]), field), to the await
callNextV2(t, data) ==
    LET rule == rules[t.field][t.ri]
        name == chainV2[t.ci]
        tv == transformedV2(t.field, data)
        r == callCheckV2(name, rule, tv.value)
        called == [t EXCEPT !.trace = Append(@, <<t.ri, name>>),
                            !.validatorCalls =
                                IF name = "validator"
                                   /\ rule.validator.how \notin {"none", "notFunction"}
                                THEN Append(@, t.ri) ELSE @]
    IN  IF ~tv.ok THEN Crashed(t)
        ELSE CASE r.kind = "promise" -> [called EXCEPT !.pc = "await", !.res = r]
               [] r.kind = "threw" -> Crashed(called)
               [] OTHER -> [called EXCEPT !.res = r]

\* reject({field, rule: {...rule, message: errMsg || rule.message}})
failTaskV2(t) ==
    LET rule == rules[t.field][t.ri]
        errMsg == IF t.res.kind = "object" THEN t.res.message ELSE "undef"
    IN  [t EXCEPT !.pc = "done", !.promise = "rejected", !.res = NoRes,
                  !.failedBy = chainV2[t.ci],
                  !.reason = [wrapped |-> TRUE, field |-> t.field,
                              rule |-> [rule EXCEPT !.message = resolveMessage(errMsg, rule)]]]

\* the executor from the result of one check to the await of the next
processV2(t, data) ==
    IF ~t.res.pass THEN failTaskV2(t)
    ELSE IF t.ci < Len(chainV2) THEN callNextV2([t EXCEPT !.ci = @ + 1], data)
    ELSE IF t.ri < Len(rules[t.field]) THEN callNextV2([t EXCEPT !.ri = @ + 1, !.ci = 1], data)
    ELSE [t EXCEPT !.pc = "done", !.promise = "resolved", !.res = NoRes]

\* the rules once the executor went from t to next: a pattern check that was
\* called has run pattern.test and left its lastIndex
rulesAfterV2(t, next, data) ==
    LET n == Len(next.trace)
        rule == rules[next.field][next.ri]
        value == transformedV2(next.field, data).value
    IN  IF n > Len(t.trace) /\ next.trace[n][2] = "pattern" /\ rule.pattern \in RegExps
        THEN [rules EXCEPT ![next.field][next.ri].lastIndex =
                               lastIndexAfter(rule.pattern, rule.lastIndex, value)]
        ELSE rules

\* validateField after its argument check
startTaskV2(field, data) ==
    LET t == NewTask(field, TRUE)
    IN  CASE rulesLookup(field) = "undefined" ->
                [t EXCEPT !.pc = "done", !.promise = "resolved"]
          [] rulesLookup(field) = "inherited" -> Crashed(t)
          [] OTHER ->
                IF transform[field] # "absent" /\ Len(rules[field]) = 0
                THEN [t EXCEPT !.pc = "done", !.promise = "resolved"]
                ELSE callNextV2(t, data)

\* the configurations of validator-2.0.0.js: one field with one rule of up to
\* MaxKeys checks, with a transform for the field, with a transform object
\* that names no field, or with no transform at all
InitV2 ==
    /\ \E rule \in {r \in RuleItem : NumKeys(r) <= MaxKeys /\ r.message = "s:msg"} :
          rules = [f \in {"f1"} |-> <<rule>>]
    /\ \E tk \in {"none", "Number", "absent"} :
          transform = [f \in Fields |-> IF f = "f1" \/ tk = "absent" THEN tk ELSE "none"]
    /\ messageHook = "none"
    /\ config = ConfigOf(rules, IF transform["f1"] = "absent" THEN "undefined" ELSE "mapping",
                         messageHook)
    /\ form \in SingleForms
    /\ Idle

CallValidateV2 ==
    /\ config.state = "built"
    /\ api = "none"
    /\ api' = "validate"
    /\ IF ~formIsObject(form)
       THEN thrown' = TRUE /\ UNCHANGED <<tasks, agg>>
       ELSE /\ tasks' = [f \in DOMAIN rules |-> startTaskV2(f, form)]
            /\ agg' = [agg EXCEPT !.state = "pending"]
            /\ UNCHANGED thrown
    /\ UNCHANGED <<rules, transform, messageHook, target, form, second, config>>

CallValidateFieldV2(field) ==
    /\ config.state = "built"
    /\ api = "none"
    /\ api' = "validateField"
    /\ target' = field
    /\ IF ~formIsObject(form)
       THEN thrown' = TRUE /\ UNCHANGED tasks
       ELSE /\ tasks' = [f \in {field} |-> startTaskV2(field, form)]
            /\ UNCHANGED thrown
    /\ UNCHANGED <<rules, transform, messageHook, form, agg, second, config>>

StepV2(f) ==
    /\ tasks[f].pc = "run"
    /\ tasks' = [tasks EXCEPT ![f] = processV2(tasks[f], form)]
    /\ rules' = rulesAfterV2(tasks[f], processV2(tasks[f], form), form)
    /\ UNCHANGED <<transform, messageHook, api, target, form, thrown, agg, second, config>>

SettleV2(f) ==
    /\ tasks[f].pc = "await"
    /\ LET r == customValidateSettledV2(rules[f][tasks[f].ri])
       IN  tasks' = [tasks EXCEPT ![f] =
                        IF r.kind = "threw" THEN Crashed(@) ELSE [@ EXCEPT !.pc = "run", !.res = r]]
    /\ UNCHANGED <<rules, transform, messageHook, api, target, form, thrown, agg, second, config>>

NextV2 ==
    \/ CallValidateV2
    \/ \E field \in Targets : CallValidateFieldV2(field)
    \/ \E f \in DOMAIN tasks : StepV2(f)
    \/ \E f \in DOMAIN tasks : SettleV2(f)
    \/ Join

SpecV2 == InitV2 /\ [][NextV2]_vars

(***************************************************************************)
(* validator-1.0.0.js.  Its validateField runs, for each rule, required,   *)
(* type, pattern and the custom validator on form[field] itself: there is  *)
(* no transform, no check skips an empty value, and form[field] is read    *)
(* only by a check the rule configures.  A failed required, type or        *)
(* pattern check and a falsy validator result reject with {field, rule},   *)
(* rule being the configured rule object (the task's aliased is TRUE); the *)
(* catch block rejects with the copy {...rule, message}.                   *)
(***************************************************************************)
\* the checks of one rule in validateField of validator-1.0.0.js, in order
chainV1 == <<"required", "type", "pattern", "validator">>

\* whether the check evaluates form[field]
readsValueV1(name, rule) ==
    CASE name = "required" -> rule.required
      [] name = "type" -> rule.type # "none" /\ rule.type \in types
      [] name = "pattern" -> rule.pattern # "none" /\ rule.pattern \in RegExps
      [] OTHER -> rule.validator.how \notin {"none", "notFunction"}

\* one check of validator-1.0.0.js on form[field]
callCheckV1(name, rule, value) ==
    CASE name = "required" -> BoolRes(~(rule.required /\ isEmpty(value)))
      [] name = "type" ->
            IF rule.type # "none" /\ rule.type \in types
            THEN (IF rule.type = "float" THEN isFloatV2(value)
                  ELSE BoolRes(typePredicate(rule.type, value)))
            ELSE BoolRes(TRUE)
      [] name = "pattern" ->
            BoolRes(IF rule.pattern # "none" /\ rule.pattern \in RegExps
                    THEN patternTest(rule.pattern, rule.lastIndex, value) ELSE TRUE)
      [] OTHER ->
            CASE rule.validator.how \in {"none", "notFunction"} -> BoolRes(TRUE)
              [] rule.validator.how = "return" -> BoolRes(rule.validator.arg = "true")
              [] rule.validator.how = "throw" -> catchResultV2(rule.validator.arg)
              [] OTHER -> PendingRes

\* the executor up to the result of the next check, or to await validRes
callNextV1(t, data) ==
    LET rule == rules[t.field][t.ri]
        name == chainV1[t.ci]
        r == callCheckV1(name, rule, data.fields[t.field])
        called == [t EXCEPT !.trace = Append(@, <<t.ri, name>>),
                            !.validatorCalls =
                                IF name = "validator"
                                   /\ rule.validator.how \notin {"none", "notFunction"}
                                THEN Append(@, t.ri) ELSE @]
    IN  IF readsValueV1(name, rule) /\ data.kind # "object" THEN Crashed(t)
        ELSE CASE r.kind = "promise" -> [called EXCEPT !.pc = "await", !.res = r]
               [] r.kind = "threw" -> Crashed(called)
               [] OTHER -> [called EXCEPT !.res = r]

\* reject({field, rule}), and in the catch block
\* reject({field, rule: {...rule, message: errMsg || rule.message}})
failTaskV1(t) ==
    LET rule == rules[t.field][t.ri]
    IN  [t EXCEPT !.pc = "done", !.promise = "rejected", !.res = NoRes,
                  !.failedBy = chainV1[t.ci],
                  !.aliased = (t.res.kind # "object"),
                  !.reason = [wrapped |-> TRUE, field |-> t.field,
                              rule |-> IF t.res.kind = "object"
                                       THEN [rule EXCEPT !.message =
                                                resolveMessage(t.res.message, rule)]
                                       ELSE rule]]

\* the executor from the result of one check to the await of the next
processV1(t, data) ==
    IF ~t.res.pass THEN failTaskV1(t)
    ELSE IF t.ci < Len(chainV1) THEN callNextV1([t EXCEPT !.ci = @ + 1], data)
    ELSE IF t.ri < Len(rules[t.field]) THEN callNextV1([t EXCEPT !.ri = @ + 1, !.ci = 1], data)
    ELSE [t EXCEPT !.pc = "done", !.promise = "resolved", !.res = NoRes]

\* the rules once the executor went from t to next: pattern.test leaves its lastIndex
rulesAfterV1(t, next, data) ==
    LET n == Len(next.trace)
        rule == rules[next.field][next.ri]
    IN  IF n > Len(t.trace) /\ next.trace[n][2] = "pattern" /\ rule.pattern \in RegExps
        THEN [rules EXCEPT ![next.field][next.ri].lastIndex =
                               lastIndexAfter(rule.pattern, rule.lastIndex,
                                              data.fields[next.field])]
        ELSE rules

\* validateField after its argument check
startTaskV1(field, data) ==
    LET t == NewTask(field, TRUE)
    IN  CASE rulesLookup(field) = "undefined" ->
                [t EXCEPT !.pc = "done", !.promise = "resolved"]
          [] rulesLookup(field) = "inherited" -> Crashed(t)
          [] OTHER ->
                IF Len(rules[field]) = 0
                THEN [t EXCEPT !.pc = "done", !.promise = "resolved"]
                ELSE callNextV1(t, data)

\* the rules validator-1.0.0.js knows checks for
RuleItemV1 ==
    {r \in RuleItem : /\ r.maxlength = 0 /\ r.minlength = 0 /\ r.enum = "none"
                      /\ r.message = "s:msg" /\ NumKeys(r) <= MaxKeys}

\* new Validator(rules) of validator-1.0.0.js: one field with one rule
InitV1 ==
    /\ \E rule \in RuleItemV1 : rules = [f \in {"f1"} |-> <<rule>>]
    /\ transform = [f \in Fields |-> "none"]
    /\ messageHook = "none"
    /\ config = ConfigOf(rules, "undefined", messageHook)
    /\ form \in SingleForms
    /\ Idle

CallValidateV1 ==
    /\ config.state = "built"
    /\ api = "none"
    /\ api' = "validate"
    /\ IF ~formIsObject(form)
       THEN thrown' = TRUE /\ UNCHANGED <<tasks, agg>>
       ELSE /\ tasks' = [f \in DOMAIN rules |-> startTaskV1(f, form)]
            /\ agg' = [agg EXCEPT !.state = "pending"]
            /\ UNCHANGED thrown
    /\ UNCHANGED <<rules, transform, messageHook, target, form, second, config>>

CallValidateFieldV1(field) ==
    /\ config.state = "built"
    /\ api = "none"
    /\ api' = "validateField"
    /\ target' = field
    /\ IF ~formIsObject(form)
       THEN thrown' = TRUE /\ UNCHANGED tasks
       ELSE /\ tasks' = [f \in {field} |-> startTaskV1(field, form)]
            /\ UNCHANGED thrown
    /\ UNCHANGED <<rules, transform, messageHook, form, agg, second, config>>

StepV1(f) ==
    /\ tasks[f].pc = "run"
    /\ tasks' = [tasks EXCEPT ![f] = processV1(tasks[f], form)]
    /\ rules' = rulesAfterV1(tasks[f], processV1(tasks[f], form), form)
    /\ UNCHANGED <<transform, messageHook, api, target, form, thrown, agg, second, config>>

SettleV1(f) ==
    /\ tasks[f].pc = "await"
    /\ LET r == customValidateSettledV2(rules[f][tasks[f].ri])
       IN  tasks' = [tasks EXCEPT ![f] =
                        IF r.kind = "threw" THEN Crashed(@) ELSE [@ EXCEPT !.pc = "run", !.res = r]]
    /\ UNCHANGED <<rules, transform, messageHook, api, target, form, thrown, agg, second, config>>

\* what the caller writes into a rule it was handed
changedRule(rule) == [rule EXCEPT !.required = FALSE, !.message = "s:changed"]

\* the caller assigns to the rule a rejection reported for field f: the rule
\* validateField rejected with, or the one under f in validate's errors map
ChangeReportedRule(f) ==
    /\ tasks[f].promise = "rejected"
    /\ tasks[f].reason.rule.message # "s:changed"
    /\ api = "validate" => agg.state = "rejected"
    /\ tasks' = [tasks EXCEPT ![f].reason.rule = changedRule(@)]
    /\ agg' = IF api = "validate"
              THEN [agg EXCEPT !.value[f] = changedRule(@)]
              ELSE agg
    /\ rules' = IF tasks[f].aliased
                THEN [rules EXCEPT ![f][tasks[f].ri] = changedRule(@)]
                ELSE rules
    /\ UNCHANGED <<transform, messageHook, api, target, form, thrown, second, config>>

NextV1 ==
    \/ CallValidateV1
    \/ \E field \in Targets : CallValidateFieldV1(field)
    \/ \E f \in DOMAIN tasks : StepV1(f)
    \/ \E f \in DOMAIN tasks : SettleV1(f)
    \/ Join
    \/ \E f \in DOMAIN tasks : ChangeReportedRule(f)

SpecV1 == InitV1 /\ [][NextV1]_vars

(***************************************************************************)
(* What the claims speak of, computed from the documented contract and     *)
(* not from the executor's loop.                                           *)
(***************************************************************************)
\* README: required > type > pattern > maxlength > minlength > enum > validator
PriorityOrder == <<"required", "type", "pattern", "maxlength", "minlength", "enum", "validator">>

\* the empty values of the required check: "", null, undefined
EmptyValues == {VEmptyStr, VNull, VUndefined}

\* the value the checks of field f are given
ValueOf(f) == transformed(f, form).value

\* whether the check of that name, taken alone, does not pass the value
WouldFail(name, rule, value) ==
    LET r == callCheck(name, rule, value)
    IN  IF r.kind = "promise" THEN ~customValidateSettled(rule).pass ELSE ~r.pass

\* the positions in PriorityOrder of the checks that would fail
FailingChecks(rule, value) ==
    {i \in 1..Len(PriorityOrder) : WouldFail(PriorityOrder[i], rule, value)}

Least(S) == CHOOSE i \in S : \A j \in S : i <= j

FirstFailing(rule, value) == PriorityOrder[Least(FailingChecks(rule, value))]

\* the rules of field f that have a failing check
FailingRules(f) ==
    {k \in 1..Len(rules[f]) : FailingChecks(rules[f][k], ValueOf(f)) # {}}

\* the evaluations that run the chain: started on a configured field's rules
ChainTasks == {f \in DOMAIN tasks : f \in DOMAIN rules /\ Len(rules[f]) > 0}

\* no message function and no messageHook of the configuration throws
NoThrowingCallback ==
    /\ messageHook # "hookThrows"
    /\ \A f \in DOMAIN rules : \A k \in 1..Len(rules[f]) : rules[f][k].message # "fnThrow"

\* the message a failure of the custom validator carries, "undef" when it carries none
OverrideOf(rule) ==
    IF rule.validator.how \in {"throw", "reject"} /\ payloadTypeof(rule.validator.arg) \in {"string", "object"}
    THEN payloadMessage(rule.validator.arg) ELSE "undef"

(***************************************************************************)
(* C1..C10                                                                 *)
(***************************************************************************)
\* C1: the check that fails an evaluation is, of all checks of the failing rule
\* that do not pass the value, the first in the order required, type, pattern,
\* maxlength, minlength, enum, validator; and an evaluation that resolved had
\* no failing check in any rule.
C1_FixedOrder ==
    \A f \in ChainTasks :
        LET t == tasks[f]
        IN  /\ t.failedBy # "none" =>
                 /\ FailingChecks(rules[f][t.ri], ValueOf(f)) # {}
                 /\ t.failedBy = FirstFailing(rules[f][t.ri], ValueOf(f))
            /\ t.promise = "rejected" => t.failedBy # "none"
            /\ t.promise = "resolved" => FailingRules(f) = {}

\* C1 witness: an evaluation rejected by a rule of which two checks fail the value
C1_Witness ==
    \E f \in ChainTasks :
        /\ tasks[f].promise = "rejected"
        /\ Cardinality(FailingChecks(rules[f][tasks[f].ri], ValueOf(f))) >= 2

\* C2: no check is called after a check that failed: every check an evaluation
\* called before its last one passed, a rejected evaluation's last call is the
\* failing check, and a custom validator is invoked only when every earlier
\* rule and every other check of its own rule passes the value.
C2_ShortCircuit ==
    \A f \in ChainTasks :
        LET t == tasks[f]
            n == Len(t.trace)
        IN  /\ \A i \in 1..(n - 1) :
                   ~WouldFail(t.trace[i][2], rules[f][t.trace[i][1]], ValueOf(f))
            /\ t.promise = "rejected" => t.trace[n] = <<t.ri, t.failedBy>>
            /\ \A i \in 1..Len(t.validatorCalls) :
                   LET k == t.validatorCalls[i]
                   IN  /\ \A j \in 1..(k - 1) : j \notin FailingRules(f)
                       /\ \A c \in {"required", "type", "pattern", "maxlength", "minlength", "enum"} :
                              ~WouldFail(c, rules[f][k], ValueOf(f))
            /\ Len(t.validatorCalls) <= Len(rules[f])

\* C2 witness: a rule with a custom validator was rejected by its maxlength check,
\* or an earlier rule failed before a rule with a custom validator
C2_Witness ==
    \E f \in ChainTasks :
        /\ tasks[f].promise = "rejected"
        /\ tasks[f].failedBy = "maxlength"
        /\ rules[f][tasks[f].ri].validator # NoValidator
        /\ tasks[f].validatorCalls = << >>
        /\ tasks[f].ri < Len(rules[f])
        /\ rules[f][Len(rules[f])].validator # NoValidator

\* the rule validate reports for field f: its first failing rule, the message resolved
ExpectedRule(f) ==
    LET rule == rules[f][Least(FailingRules(f))]
        ovr == IF FirstFailing(rule, ValueOf(f)) = "validator" THEN OverrideOf(rule) ELSE "undef"
    IN  [rule EXCEPT !.message = IF ovr \in {"undef", "s:"} THEN rule.message ELSE ovr]

\* C3: when validate rejects, the keys of the rejection map are exactly the
\* configured fields that have a failing rule, and the value under each key
\* is that field's first failing rule with the resolved message.
C3_AggregateCompleteness ==
    agg.state = "rejected" =>
        /\ DOMAIN agg.value = {f \in DOMAIN rules : FailingRules(f) # {}}
        /\ \A f \in DOMAIN agg.value : agg.value[f] = ExpectedRule(f)

\* C3 witness: validate rejected with two failing fields
C3_Witness ==
    /\ agg.state = "rejected"
    /\ Cardinality(DOMAIN agg.value) = 2

\* C4: once validate has settled, it resolved if and only if no configured
\* field has a failing rule (so with no configured field it resolved).
C4_ResolvesIffNoFailure ==
    /\ agg.state \in {"resolved", "rejected"} =>
          (agg.state = "resolved" <=> \A f \in DOMAIN rules : FailingRules(f) = {})
    /\ agg.state = "resolved" => agg.value = NoErrors

\* C4 witness: validate resolved over two configured fields
C4_Witness ==
    /\ agg.state = "resolved"
    /\ Cardinality(DOMAIN rules) = 2

\* C5: validate's promise is settled only when the evaluation of every
\* configured field has settled.
C5_NeverFailsFast ==
    agg.state \in {"resolved", "rejected"} =>
        /\ DOMAIN tasks = DOMAIN rules
        /\ \A f \in DOMAIN tasks : tasks[f].promise \in {"resolved", "rejected"}

\* C5 witness: one field has failed, another awaits its custom validator, and
\* validate is still pending
C5_Witness ==
    /\ agg.state = "pending"
    /\ \E f, g \in DOMAIN tasks : tasks[f].promise = "rejected" /\ tasks[g].pc = "await"

\* C6 as claimed: validateField on a field that is no key of the rules, with a
\* data object, resolves and calls nothing.
C6_VacuousPass ==
    (api = "validateField" /\ form.kind = "object" /\ target \notin DOMAIN rules) =>
        /\ tasks[target].promise = "resolved"
        /\ tasks[target].trace = << >>
        /\ tasks[target].validatorCalls = << >>
        /\ tasks[target].hookCalls = << >>
        /\ tasks[target].messageFnCalls = 0

\* C7: with required set, an empty value ("", null, undefined) is rejected by
\* the required check with that rule and no other check is called; any other
\* value passes the required check and the type check is called next.  Only a
\* message function or messageHook that throws keeps the rejection from
\* being delivered.
C7_Required ==
    \A f \in ChainTasks :
        LET t == tasks[f]
            rule == rules[f][1]
            empty == ValueOf(f) \in EmptyValues
        IN  (rule.required /\ t.trace # << >>) =>
              /\ t.trace[1] = <<1, "required">>
              /\ empty =>
                   /\ Len(t.trace) = 1
                   /\ t.promise # "resolved"
                   /\ t.pc # "await"
                   /\ t.pc = "done" =>
                        /\ t.failedBy = "required"
                        /\ t.reason.rule = rule
                   /\ t.pc = "crashed" => ~NoThrowingCallback
              /\ ~empty =>
                   /\ t.failedBy # "required"
                   /\ (t.ri > 1 \/ t.ci > 1 \/ t.pc = "done") =>
                        (Len(t.trace) >= 2 /\ t.trace[2] = <<1, "type">>)

\* C7 witness: a required rule passed the value 0 or false and the chain went on
C7_Witness ==
    \E f \in ChainTasks :
        /\ rules[f][1].required
        /\ ValueOf(f) \in {VNum("0"), VBool("false")}
        /\ tasks[f].promise = "resolved"

\* C7 witness of the other half: a required rule rejected an empty value
C7_WitnessEmpty ==
    \E f \in ChainTasks :
        /\ rules[f][1].required
        /\ ValueOf(f) = VNull
        /\ tasks[f].promise = "rejected"

\* the evaluations a failing custom validator rejected
ValidatorFailures ==
    {f \in ChainTasks : tasks[f].promise = "rejected" /\ tasks[f].failedBy = "validator"
                        /\ rules[f][tasks[f].ri].validator.how \in {"throw", "reject"}}

\* the payloads that are a string or an object carrying a message
MessagePayloads == {"sWrong", "sEmpty", "errBoom", "objEmptyMsg"}

\* C8 as claimed: every payload that is a string or an object carrying a
\* message, the empty string included, becomes the reported message.
C8_AnyPayloadOverrides ==
    \A f \in ValidatorFailures :
        LET rule == rules[f][tasks[f].ri]
        IN  rule.validator.arg \in MessagePayloads =>
                tasks[f].reason.rule = [rule EXCEPT !.message = payloadMessage(rule.validator.arg)]

\* C8 amended: a payload that is a non-empty string, or an object whose message
\* is a non-empty string, becomes the reported message; for the empty string
\* and for an object whose message is empty the rule's configured message is
\* reported.  All other keys of the reported rule are the configured rule's.
C8_NonEmptyPayloadOverrides ==
    \A f \in ValidatorFailures :
        LET rule == rules[f][tasks[f].ri]
            arg == rule.validator.arg
        IN  /\ arg \in {"sWrong", "errBoom"} =>
                tasks[f].reason.rule = [rule EXCEPT !.message = payloadMessage(arg)]
            /\ arg \in {"sEmpty", "objEmptyMsg"} => tasks[f].reason.rule = rule

\* C8 witness: the validator rejected with the string "wrong" and the reported
\* message is "wrong", not the rule's
C8_Witness ==
    \E f \in ValidatorFailures :
        /\ rules[f][tasks[f].ri].validator = [how |-> "reject", arg |-> "sWrong"]
        /\ tasks[f].reason.rule.message = "s:wrong"
        /\ rules[f][tasks[f].ri].message # "s:wrong"

\* C9 as claimed: whatever a custom validator throws or rejects with, once the
\* executor is through with that check the evaluation has rejected with the
\* rule (no callback of the configuration throwing).
C9_ErrorsBecomeFailures ==
    NoThrowingCallback =>
        \A f \in ChainTasks :
            LET t == tasks[f]
                rule == rules[f][t.ri]
            IN  (rule.validator.how \in {"throw", "reject"} /\ t.validatorCalls # << >>
                 /\ t.pc \in {"done", "crashed"}) =>
                    /\ t.promise = "rejected"
                    /\ t.reason.rule = [rule EXCEPT !.message = t.reason.rule.message]

\* C10 as claimed: validate and validateField throw at once for every data
\* argument that is no key-value object, null included.
C10_NonObjectThrows ==
    (api # "none" /\ form.kind # "object") => (thrown /\ tasks = NoTasks /\ agg.state = "none")

(***************************************************************************)
(* C11..C20                                                                *)
(***************************************************************************)
\* C11: validateField called by the user rejects with the failing rule itself,
\* its message resolved, and not with a {field, rule} wrapper; validate
\* rejects with a map whose value under a field is that same rule, so for
\* the same data both report the same rule for a field.
C11_RejectionShape ==
    /\ api = "validateField" =>
          \A f \in ChainTasks :
              tasks[f].promise = "rejected" =>
                  /\ ~tasks[f].reason.wrapped
                  /\ tasks[f].reason.rule = ExpectedRule(f)
    /\ (api = "validate" /\ agg.state = "rejected") =>
          \A f \in DOMAIN agg.value :
              /\ tasks[f].reason = [wrapped |-> TRUE, field |-> f, rule |-> ExpectedRule(f)]
              /\ agg.value[f] = ExpectedRule(f)

\* C11 witness: the user's validateField rejected with the rule carrying the
\* validator's message
C11_Witness ==
    /\ api = "validateField"
    /\ target \in ChainTasks
    /\ tasks[target].promise = "rejected"
    /\ tasks[target].reason.rule.message = "s:boom"

\* C11 witness of the other half: validate rejected with a map holding the rule
C11_WitnessMap ==
    /\ api = "validate"
    /\ agg.state = "rejected"
    /\ "f1" \in DOMAIN agg.value
    /\ agg.value["f1"].message = "s:boom"

\* C12: an evaluation that has settled resolved if and only if every rule of
\* the field passes the value; otherwise it rejected with the first rule, in
\* the configured order, that has a failing check, and the rules before it
\* were evaluated and passed.
C12_FirstFailingRule ==
    \A f \in ChainTasks :
        LET t == tasks[f]
        IN  t.pc = "done" =>
              /\ t.promise = "resolved" <=> FailingRules(f) = {}
              /\ t.promise = "rejected" =>
                    /\ t.ri = Least(FailingRules(f))
                    /\ t.reason.rule = ExpectedRule(f)
                    /\ \A k \in 1..(t.ri - 1) : \E i \in 1..Len(t.trace) : t.trace[i][1] = k

\* C12 witness: the first rule passed the value and the second rule rejected it
C12_Witness ==
    \E f \in ChainTasks :
        /\ tasks[f].promise = "rejected"
        /\ tasks[f].ri = 2
        /\ tasks[f].reason.rule = rules[f][2]
        /\ rules[f][1] # rules[f][2]

\* the raw value of field f in the caller's data
RawOf(f) == form.fields[f]

\* the fields validated with a transform that returns: none or value => Number(value)
TransformFields ==
    {f \in ChainTasks : form.kind = "object" /\ transform[f] \in {"none", "Number"}}

\* transform[f](data[f]) for those fields, the identity when f has no transform
GivenValue(f) == IF transform[f] = "Number" THEN Number(RawOf(f)) ELSE RawOf(f)

\* the checks are evaluated on the transformed value
ChecksSeeTransformed ==
    \A f \in TransformFields :
        LET t == tasks[f]
            rule == rules[f][t.ri]
        IN  /\ t.failedBy # "none" =>
                  /\ FailingChecks(rule, GivenValue(f)) # {}
                  /\ t.failedBy = FirstFailing(rule, GivenValue(f))
            /\ t.promise = "resolved" => FailingChecks(rule, GivenValue(f)) = {}

\* C13: every check of a field is evaluated on transform[f](data[f]) (on
\* data[f] when the field has no transform) and never on the raw value: the
\* check that fails the evaluation is the first check failing the transformed
\* value, and an evaluation that resolved has no check failing it.  No step
\* changes the data object.
C13_TransformBeforeValidation == []ChecksSeeTransformed /\ [][form' = form]_vars

\* C13 witness: type integer with the transform Number passed the string "12",
\* which the type check fails when given the raw value
C13_Witness ==
    \E f \in TransformFields :
        /\ transform[f] = "Number"
        /\ rules[f][1].type = "integer"
        /\ RawOf(f) = VStr("12", 2)
        /\ tasks[f].promise = "resolved"
        /\ WouldFail("type", rules[f][1], RawOf(f))

\* the checks whose content in the rule is malformed: a type outside the ten
\* tags, a pattern that is no regular expression, a maxlength or minlength
\* that is no positive integer, an enum that is no array, a validator that is
\* no function
MalformedChecks(rule) ==
    {c \in {"type"} : rule.type # "none" /\ rule.type \notin types}
    \cup {c \in {"pattern"} : rule.pattern # "none" /\ rule.pattern \notin RegExps}
    \cup {c \in {"maxlength"} : rule.maxlength < 0}
    \cup {c \in {"minlength"} : rule.minlength < 0}
    \cup {c \in {"enum"} : rule.enum # "none" /\ rule.enum \notin Arrays}
    \cup {c \in {"validator"} : rule.validator = NotAFunction}

\* the rule without its malformed contents
WellFormed(rule) ==
    LET bad == MalformedChecks(rule)
    IN  [rule EXCEPT !.type = IF "type" \in bad THEN "none" ELSE @,
                     !.pattern = IF "pattern" \in bad THEN "none" ELSE @,
                     !.maxlength = IF "maxlength" \in bad THEN 0 ELSE @,
                     !.minlength = IF "minlength" \in bad THEN 0 ELSE @,
                     !.enum = IF "enum" \in bad THEN "none" ELSE @,
                     !.validator = IF "validator" \in bad THEN NoValidator ELSE @]

\* the evaluations of a non-empty value against a rule with malformed content
MalformedTasks ==
    {f \in TransformFields : /\ MalformedChecks(rules[f][1]) # {}
                             /\ GivenValue(f) \notin EmptyValues}

\* C14: for a non-empty value a check whose content in the rule is malformed
\* passes: it never fails the evaluation, the evaluation ends as it does for
\* the rule without the malformed content, the checks after it are still
\* called, and the executor raises only where it does without that content
\* (a validator throwing null, a throwing message function or messageHook).
C14_MalformedDegradesToPass ==
    \A f \in MalformedTasks :
        LET t == tasks[f]
            rule == rules[f][1]
            good == WellFormed(rule)
            value == GivenValue(f)
        IN  /\ t.failedBy \notin MalformedChecks(rule)
            /\ t.failedBy # "none" =>
                  /\ FailingChecks(good, value) # {}
                  /\ t.failedBy = FirstFailing(good, value)
            /\ t.promise = "rejected" => t.reason.rule.message = ExpectedRule(f).message
            /\ t.promise = "resolved" =>
                  /\ FailingChecks(good, value) = {}
                  /\ Len(t.trace) = Len(chain)
            /\ t.pc = "crashed" =>
                  \/ ~NoThrowingCallback
                  \/ customValidateSettled(good).kind = "threw"
                  \/ _customValidate(good, value).kind = "threw"

\* C14 witness: a rule with a malformed maxlength and a custom validator was
\* evaluated to the end and rejected by the validator
C14_Witness ==
    \E f \in MalformedTasks :
        /\ rules[f][1].maxlength < 0
        /\ tasks[f].promise = "rejected"
        /\ tasks[f].failedBy = "validator"

\* C14 witness: a rule whose only content is malformed resolved
C14_WitnessResolved ==
    \E f \in MalformedTasks :
        /\ MalformedChecks(rules[f][1]) = {"enum"}
        /\ tasks[f].promise = "resolved"

\* a rule as configured: its pattern's lastIndex as the constructor received it
Fresh(rule) == [rule EXCEPT !.lastIndex = 0]

\* a rejection map with the rules as configured
FreshMap(errors) == [f \in DOMAIN errors |-> Fresh(errors[f])]

\* the rules of field f that have a failing check when the field is validated alone
AloneFailing(f) ==
    {k \in 1..Len(rules[f]) : FailingChecks(Fresh(rules[f][k]), ValueOf(f)) # {}}

\* the rule a call reports for field f when it runs alone
AloneRule(f) ==
    LET rule == Fresh(rules[f][Least(AloneFailing(f))])
        ovr == IF FirstFailing(rule, ValueOf(f)) = "validator" THEN OverrideOf(rule) ELSE "undef"
    IN  [rule EXCEPT !.message = IF ovr \in {"undef", "s:"} THEN rule.message ELSE ovr]

\* a settled validate call has the outcome it has when it runs alone
AloneOutcome(call) ==
    call.state \in {"resolved", "rejected"} =>
        /\ call.state = "resolved" <=> \A f \in DOMAIN rules : AloneFailing(f) = {}
        /\ DOMAIN call.value = {f \in DOMAIN rules : AloneFailing(f) # {}}
        /\ \A f \in DOMAIN call.value : Fresh(call.value[f]) = AloneRule(f)

\* C15 as claimed: validate called twice on one instance with the same data,
\* the second call after the first has settled, yields the same outcome both
\* times: both resolve, or both reject with equal maps.
C15_Idempotent ==
    (/\ api = "validate"
     /\ second.api = "validate"
     /\ second.sequential
     /\ second.agg.state \in {"resolved", "rejected"}) =>
        /\ second.agg.state = agg.state
        /\ FreshMap(second.agg.value) = FreshMap(agg.value)

\* C16 as claimed: with several calls in flight on one instance, in any
\* interleaving of their evaluations, each call settles with the outcome it
\* has when it runs alone, the outcome of a field depending on that field's
\* value, rules and transform only.
C16_ConcurrentCallsSafe ==
    /\ api = "validate" => AloneOutcome(agg)
    /\ AloneOutcome(second.agg)
    /\ (api = "validateField" /\ target \in ChainTasks /\ tasks[target].pc = "done") =>
          /\ tasks[target].promise = "resolved" <=> AloneFailing(target) = {}
          /\ tasks[target].promise = "rejected" =>
                Fresh(tasks[target].reason.rule) = AloneRule(target)

\* the evaluations whose failure branch ran: rejected, or raised in a callback
FailedTasks ==
    {f \in ChainTasks :
        \/ tasks[f].promise = "rejected"
        \/ tasks[f].pc = "crashed" /\ tasks[f].messageFnCalls + Len(tasks[f].hookCalls) > 0}

\* nothing was dispatched by the evaluation of field f
NothingDispatched(f) == tasks[f].messageFnCalls = 0 /\ tasks[f].hookCalls = << >>

C17_WitnessFunction ==
    \E f \in FailedTasks :
        /\ messageHook = "hook"
        /\ tasks[f].messageFnCalls = 1
        /\ tasks[f].hookCalls = << >>
        /\ tasks[f].promise = "rejected"

\* whether the check of that name of validator-2.0.0.js, taken alone, does not pass the value
WouldFailV2(name, rule, value) ==
    LET r == callCheckV2(name, rule, value)
    IN  IF r.kind = "promise" THEN ~customValidateSettledV2(rule).pass ELSE ~r.pass

\* whether a check of validator-2.0.0.js raises on the value
RaisesV2(rule, value) ==
    \E i \in 1..Len(chainV2) :
        LET r == callCheckV2(chainV2[i], rule, value)
        IN  r.kind = "threw" \/ (r.kind = "promise" /\ customValidateSettledV2(rule).kind = "threw")

\* C18 as claimed: in validator-2.0.0.js the check that fails an evaluation
\* is the first, in the order required, type, pattern, maxlength, minlength,
\* enum, validator, of the rule's checks that do not pass the value, and the
\* custom validator of a rule whose maxlength, minlength or enum check fails
\* the value is not invoked.
C18_PriorityOrderV2 ==
    \A f \in ChainTasks :
        LET t == tasks[f]
            rule == rules[f][t.ri]
            tv == transformedV2(f, form)
            failing == {i \in 1..Len(PriorityOrder) : WouldFailV2(PriorityOrder[i], rule, tv.value)}
        IN  (tv.ok /\ ~RaisesV2(rule, tv.value)) =>
              /\ t.failedBy # "none" => t.failedBy = PriorityOrder[Least(failing)]
              /\ (\E c \in {"maxlength", "minlength", "enum"} : WouldFailV2(c, rule, tv.value)) =>
                    t.validatorCalls = << >>

\* the evaluations of an empty transformed value
EmptyValueTasks == {f \in TransformFields : GivenValue(f) \in EmptyValues}

\* C19: when the transformed value is "", null or undefined, no check other
\* than required fails the evaluation and no custom validator is invoked;
\* the evaluation resolves when no rule of the field has required set, and
\* is failed by the required check of the first rule that has it otherwise.
C19_EmptyValueSkip ==
    \A f \in EmptyValueTasks :
        LET t == tasks[f]
            required == {k \in 1..Len(rules[f]) : rules[f][k].required}
        IN  /\ t.validatorCalls = << >>
            /\ t.pc # "await"
            /\ t.failedBy \in {"none", "required"}
            /\ required = {} => (t.promise # "rejected" /\ t.pc \in {"run", "done"}
                                 /\ NothingDispatched(f))
            /\ (required = {} /\ t.pc = "done") =>
                  (t.promise = "resolved" /\ Len(t.trace) = Len(chain) * Len(rules[f]))
            /\ t.promise = "rejected" => t.ri = Least(required)

\* C19 witness: a rule with a type, a length bound and a validator that
\* returns false resolved for the value null
C19_Witness ==
    \E f \in EmptyValueTasks :
        /\ GivenValue(f) = VNull
        /\ rules[f][1].validator = [how |-> "return", arg |-> "false"]
        /\ tasks[f].promise = "resolved"

\* the evaluations of a non-empty value that are through with the call of
\* their custom validator
ValidatorDone ==
    {f \in TransformFields : /\ GivenValue(f) \notin EmptyValues
                             /\ tasks[f].validatorCalls # << >>
                             /\ tasks[f].pc \in {"done", "crashed"}}

\* C20 as claimed: for a non-empty value the custom-validator check passes
\* when the validator returns a truthy value or a promise that fulfils (with
\* false too); a falsy return fails with the rule's own message; a throw or a
\* rejected promise, whatever the payload, fails (no callback of the
\* configuration throwing).
C20_ValidatorClassification ==
    NoThrowingCallback =>
        \A f \in ValidatorDone :
            LET t == tasks[f]
                rule == rules[f][t.ri]
                v == rule.validator
            IN  /\ (v.how = "resolve" \/ v = [how |-> "return", arg |-> "true"]) =>
                      t.promise = "resolved"
                /\ v = [how |-> "return", arg |-> "false"] =>
                      /\ t.promise = "rejected"
                      /\ t.failedBy = "validator"
                      /\ t.reason.rule = rule
                /\ v.how \in {"throw", "reject"} =>
                      /\ t.promise = "rejected"
                      /\ t.failedBy = "validator"

(***************************************************************************)
(* C21..C26                                                                *)
(***************************************************************************)
\* the evaluations of a non-empty value
NonEmptyTasks == {f \in TransformFields : GivenValue(f) \notin EmptyValues}

\* C21 as claimed: with a positive maxlength the maxlength check fails a
\* non-empty value if and only if value.length > maxlength, and with a
\* positive minlength the minlength check fails it if and only if
\* value.length < minlength, values that have no length included (for them
\* neither comparison is true).
C21_LengthBounds ==
    \A f \in NonEmptyTasks :
        LET t == tasks[f]
            rule == rules[f][t.ri]
            value == GivenValue(f)
            hasLength == value.len >= 0
        IN  /\ rule.maxlength > 0 =>
                  /\ WouldFail("maxlength", rule, value) <=> (hasLength /\ value.len > rule.maxlength)
                  /\ t.failedBy = "maxlength" => (hasLength /\ value.len > rule.maxlength)
            /\ rule.minlength > 0 =>
                  /\ WouldFail("minlength", rule, value) <=> (hasLength /\ value.len < rule.minlength)
                  /\ t.failedBy = "minlength" => (hasLength /\ value.len < rule.minlength)

\* the first call has returned a promise
Called == api # "none" /\ ~thrown

\* the promise the first call returned has settled
Settled ==
    \/ api = "validate" /\ agg.state \in {"resolved", "rejected"}
    \/ api = "validateField" /\ ~thrown /\ tasks[target].promise \in {"resolved", "rejected"}

\* C23 as claimed: the promise validateField or validate returned eventually
\* resolves or rejects, every custom-validator promise settling and every
\* executor being resumed; a throwing transform, message function or
\* messageHook and a field name such as "constructor" included.
C23_EventuallySettles == Called ~> Settled

\* C24 as claimed: in validator-2.0.0.js a field with no transform, the
\* configuration carrying a transform object that does not name it or no
\* transform at all, is evaluated on data[f] as with the identity
\* transform and its evaluation proceeds normally: the executor does not
\* raise, a failing check is a check failing data[f], and an evaluation that
\* resolved has no check failing data[f].
C24_TransformOptional ==
    \A f \in ChainTasks :
        LET t == tasks[f]
            rule == rules[f][t.ri]
            raw == RawOf(f)
        IN  (form.kind = "object" /\ transform[f] \in {"none", "absent"}
             /\ ~RaisesV2(rule, raw)) =>
                /\ t.pc # "crashed"
                /\ t.failedBy # "none" => WouldFailV2(t.failedBy, rule, raw)
                /\ t.promise = "resolved" =>
                      \A i \in 1..Len(chainV2) : ~WouldFailV2(chainV2[i], rule, raw)

\* C25 as claimed: in validator-2.0.0.js (as in validator-1.0.0.js) isFloat
\* returns, for every value, the boolean isNumber(v) and not isInteger(v), and
\* the type check of a rule with type float yields pass or fail for every
\* non-empty value it is called on.
C25_FloatPartition ==
    /\ form.kind = "object" =>
          \A f \in Fields :
              LET v == form.fields[f]
              IN  /\ isFloatV2(v).kind = "bool"
                  /\ isFloatV2(v).pass = (isNumber(v) /\ ~isInteger(v))
    /\ \A f \in ChainTasks :
          LET t == tasks[f]
              n == Len(t.trace)
          IN  (/\ rules[f][t.ri].type = "float"
               /\ transformedV2(f, form).ok
               /\ ~isEmpty(transformedV2(f, form).value)
               /\ n > 0
               /\ t.trace[n][2] = "type") => t.pc # "crashed"

\* C26: once the constructor has returned, the internal rule map has exactly
\* the keys of the supplied rules mapping, a field given one rule object
\* holds the one-element sequence of that rule, and a field given an array
\* holds the same rules in the same order; when the rules argument is no
\* key-value mapping (undefined, null, an array, a number, a string) the
\* constructor throws, no validator exists and no call is ever made on one.
C26_RuleNormalisation ==
    /\ config.state = "built" =>
          /\ config.kind = "mapping"
          /\ DOMAIN rules = DOMAIN config.rules
          /\ \A f \in DOMAIN config.rules :
                LET item == config.rules[f]
                IN  IF item.isArray
                    THEN /\ Len(rules[f]) = Len(item.items)
                         /\ \A i \in 1..Len(item.items) : rules[f][i] = item.items[i]
                    ELSE /\ Len(rules[f]) = 1
                         /\ rules[f][1] = item.rule
    /\ (config.state # "new" /\ config.kind # "mapping") =>
          /\ config.state = "threw"
          /\ config.error # "none"
          /\ rules = [f \in {} |-> << >>]
          /\ api = "none"
          /\ tasks = NoTasks

\* a validator built from a lone rule under one field and two rules under another
C26_Witness ==
    /\ config.state = "built"
    /\ \E f \in DOMAIN config.rules : ~config.rules[f].isArray
    /\ \E f \in DOMAIN config.rules :
          config.rules[f].isArray /\ Len(config.rules[f].items) = 2
    /\ agg.state = "rejected"

\* the constructor has thrown for a rules argument that is an array
C26_WitnessThrows ==
    /\ config.state = "threw"
    /\ config.arg = "object"
    /\ config.kind = "array"

\* C22 as claimed: no step of a validate or validateField call changes the
\* rules, the transform, the messageHook or the caller's data, and what a
\* call reports is a copy of the configured rule, so that a change the
\* caller makes to a reported rule leaves the configured rules as they were.
C22_FrameCondition ==
    [][/\ rules' = rules
       /\ transform' = transform
       /\ messageHook' = messageHook
       /\ form' = form]_vars

====
